---- MODULE Spec2Model ----
(***************************************************************************)
(* Model of the PokeCard-TCG-detector hash catalog:                        *)
(*   - src/update_hashes_from_tcgdex.py : the offline catalog builder      *)
(*   - src/api.py                       : the matching service             *)
(*   - src/compute_hash.py              : the standalone hash script       *)
(* The two programs share one durable file, card_hashes_32b.pickle.        *)
(***************************************************************************)
EXTENDS Integers, Sequences, FiniteSets, TLC

(***************************************************************************)
(* Bounds of the model.                                                    *)
(***************************************************************************)
MaxBatch == 2        \* batch_size ranges over 1..MaxBatch
MaxLimit == 2        \* limit ranges over None and 0..MaxLimit
MaxStart == 1        \* start_from ranges over 0..MaxStart
MaxRuns  == 2        \* builder runs per behaviour
MaxN     == 3        \* top_n of a match request ranges over -1..MaxN
MaxDistance == 160   \* best distances given to recognize_card range over 0..MaxDistance
MaxPrinted == 3      \* runs of compute_hash.py per behaviour

(***************************************************************************)
(* Values.                                                                 *)
(***************************************************************************)
\* float('nan') in a "distance" cell; distances themselves are >= 0
NaN == -1
\* limit=None
None == -1

\* A card id "a-b-c" is the sequence of its '-'-separated segments.
IdSv1   == <<"sv1", "1">>
IdSv2   == <<"sv1", "2">>
IdBase  == <<"base4", "1">>
IdPromo == <<"promo">>
IdPA    == <<"P", "A", "001">>

Images == {"i0", "i5", "i12", "i30", "i160"}

\* Bits set in the frequency-domain fingerprint of each test image: the
\* images are chosen so that their pairwise Hamming distances are
\* 0, 5, 7, 12, 18, 25, 30, 130, ...
PBits(img) ==
  CASE img = "i0"   -> {}
    [] img = "i5"   -> 1..5
    [] img = "i12"  -> 1..12
    [] img = "i30"  -> 1..30
    [] img = "i160" -> 1..160

\* Gradient, wavelet and colour fingerprints of the test images.
DBits(img) ==
  CASE img = "i0"   -> {1}
    [] img = "i5"   -> {1}
    [] img = "i12"  -> {1, 2}
    [] img = "i30"  -> {2, 3, 4}
    [] img = "i160" -> {}

WBits(img) ==
  CASE img = "i0"   -> {1, 2, 3}
    [] img = "i5"   -> {1, 2}
    [] img = "i12"  -> {1}
    [] img = "i30"  -> {}
    [] img = "i160" -> {1, 2, 3}

CBits(img) ==
  CASE img = "i0"   -> {1}
    [] img = "i5"   -> {2}
    [] img = "i12"  -> {1}
    [] img = "i30"  -> {2}
    [] img = "i160" -> {1, 2}

\* imagehash.ImageHash: a boolean array, here its length and the set of
\* positions that are True.
ImageHash(len, bits) == [len |-> len, ones |-> {b \in bits : b <= len}]

phash(img, hash_size)  == ImageHash(hash_size * hash_size, PBits(img))
dhash(img, hash_size)  == ImageHash(hash_size * hash_size, DBits(img))
whash(img, hash_size)  == ImageHash(hash_size * hash_size, WBits(img))
colorhash(img, binbits) == ImageHash(14 * binbits, CBits(img))

HashSize == 32
ColorBinbits == 3

\* compute_hashes_for_image, on a fetched and decoded image
compute_hashes(img) ==
  [perceptual |-> phash(img, HashSize),
   difference |-> dhash(img, HashSize),
   wavelet    |-> whash(img, HashSize),
   color      |-> colorhash(img, ColorBinbits)]

\* A DataFrame: its rows in index order, and whether it has the
\* "distance" column beside id and the four fingerprint columns.
DataFrame(hasDistance, rows) == [hasDistance |-> hasDistance, rows |-> rows]

EmptyFrame == DataFrame(FALSE, <<>>)

Row(id, hashes) ==
  [id |-> id,
   perceptual |-> hashes.perceptual,
   difference |-> hashes.difference,
   wavelet    |-> hashes.wavelet,
   color      |-> hashes.color,
   distance   |-> NaN]

IdsOf(rows) == {rows[i].id : i \in DOMAIN rows}

CountId(rows, id) == Cardinality({i \in DOMAIN rows : rows[i].id = id})

UniqueById(rows) == \A i, j \in DOMAIN rows : rows[i].id = rows[j].id => i = j

\* pd.concat([df, pd.DataFrame(rows)], ignore_index=True): the columns are
\* the union of both frames' columns, the cells df's rows lack are NaN.
Concat(df, rows) == DataFrame(df.hasDistance, df.rows \o rows)

(***************************************************************************)
(* State.                                                                  *)
(***************************************************************************)
VARIABLES
  pickle,          \* card_hashes_32b.pickle: [exists, df]
  csv,             \* card_hashes_32b.csv: [exists, rows]
  \* ---- catalog builder (update_hashes_from_tcgdex.py)
  upstream,        \* what the TCGdex API lists: a sequence of sets
  bpc,             \* position of the builder process
  batch_size, start_from, limit,
  existing_df, existing_ids, all_sets,
  new_hashes, total_processed, total_added, total_skipped,
  set_idx, cards, card_idx,
  run,             \* number of builder runs started
  loaded_df,       \* history: the durable catalog the current run loaded
  fetched,         \* history: ids whose image the current run requested
  last_outcome,    \* history: how the last card of the run ended
  run_clean,       \* history: no failure, no limit stop in the current run
  prev_clean,      \* history: the previous run completed with run_clean
  \* ---- matching service (api.py)
  card_hashes,     \* the global DataFrame of the service process
  th,              \* the request each server thread is handling
  probe,           \* recognize_card's answer to a best match given directly
  \* ---- standalone script (compute_hash.py)
  printed          \* what its runs have printed: the image and the JSON object

builderVars ==
  <<upstream, bpc, batch_size, start_from, limit, existing_df, existing_ids,
    all_sets, new_hashes, total_processed, total_added, total_skipped,
    set_idx, cards, card_idx, run, loaded_df, fetched, last_outcome,
    run_clean, prev_clean>>

builderVars_but_bpc ==
  <<upstream, batch_size, start_from, limit, existing_df, existing_ids,
    all_sets, new_hashes, total_processed, total_added, total_skipped,
    set_idx, cards, card_idx, run, loaded_df, fetched, last_outcome,
    run_clean, prev_clean>>

fileVars == <<pickle, csv>>

svcVars == <<card_hashes, th, probe, printed>>

vars == <<fileVars, builderVars, svcVars>>

(***************************************************************************)
(* The external card database.                                             *)
(***************************************************************************)
NoImage == "none"

Card(id, image) == [id |-> id, image |-> image]

CardSet(id, releaseDate, cs) == [id |-> id, releaseDate |-> releaseDate, cards |-> cs]

\* Listings the API may serve. The second and third list one card id twice,
\* within a set and across sets; the fourth has a card without image and is
\* served oldest set first.
Listings ==
  { << CardSet("sv1", 2, <<Card(IdSv1, "i0"), Card(IdSv2, "i5")>>),
       CardSet("base4", 1, <<Card(IdBase, "i12")>>) >>,
    << CardSet("sv1", 2, <<Card(IdSv1, "i0"), Card(IdSv1, "i0")>>),
       CardSet("base4", 1, <<Card(IdBase, "i12")>>) >>,
    << CardSet("sv1", 2, <<Card(IdSv1, "i0")>>),
       CardSet("base4", 1, <<Card(IdSv1, "i0"), Card(IdBase, "i12")>>) >>,
    << CardSet("base4", 1, <<Card(IdBase, NoImage), Card(IdPromo, "i30")>>),
       CardSet("sv1", 2, <<Card(IdSv1, "i0")>>) >> }

\* sorted(all_sets, key=releaseDate, reverse=True): stable, newest first
RECURSIVE InsertByDate(_, _)
InsertByDate(sorted, s) ==
  IF sorted = <<>> THEN <<s>>
  ELSE IF Head(sorted).releaseDate >= s.releaseDate
       THEN <<Head(sorted)>> \o InsertByDate(Tail(sorted), s)
       ELSE <<s>> \o sorted

RECURSIVE SortSets(_)
SortSets(sets) ==
  IF sets = <<>> THEN <<>>
  ELSE InsertByDate(SortSets(SubSeq(sets, 1, Len(sets) - 1)), sets[Len(sets)])

(***************************************************************************)
(* Catalog builder: update_hash_database and __main__.                     *)
(***************************************************************************)
Running == {"set", "card", "batch", "final"}
Ended   == {"done", "nosets", "interrupted", "crashed"}

\* `if limit and total_processed >= limit`
LimitReached(lim, processed) == lim # None /\ lim # 0 /\ processed >= lim

\* updated_df.to_pickle('card_hashes_32b.pickle')
to_pickle(df) == [exists |-> TRUE, df |-> df]

\* the CSV export: the frame with the four fingerprints as strings
AsStr(h) == [str |-> h]

CsvRow(r) ==
  [id |-> r.id, perceptual |-> AsStr(r.perceptual), difference |-> AsStr(r.difference),
   wavelet |-> AsStr(r.wavelet), color |-> AsStr(r.color)]

to_csv(df) == [exists |-> TRUE, rows |-> [i \in DOMAIN df.rows |-> CsvRow(df.rows[i])]]

\* lines 76-106: load the catalog, fetch and sort the set list
BStart ==
  /\ bpc \in Ended \cup {"idle"}
  /\ run < MaxRuns
  /\ run' = run + 1
  /\ prev_clean' = (bpc = "done" /\ run_clean)
  /\ run_clean' = TRUE
  /\ existing_df' = IF pickle.exists THEN pickle.df ELSE EmptyFrame
  /\ existing_ids' = IdsOf(existing_df'.rows)
  /\ loaded_df' = existing_df'
  /\ fetched' = {}
  /\ last_outcome' = "none"
  /\ new_hashes' = <<>>
  /\ total_processed' = 0
  /\ total_added' = 0
  /\ total_skipped' = 0
  /\ set_idx' = start_from
  /\ cards' = <<>>
  /\ card_idx' = 1
  /\ \E got \in {"ok", "status", "raise"} :
       \/ /\ got = "ok"
          /\ all_sets' = SortSets(upstream)
          /\ bpc' = "set"
       \/ /\ got = "status"       \* get_all_sets returns []
          /\ all_sets' = <<>>
          /\ bpc' = "nosets"
       \/ /\ got = "raise"        \* requests.get raises
          /\ all_sets' = <<>>
          /\ bpc' = "crashed"
  /\ UNCHANGED <<fileVars, svcVars, upstream, batch_size, start_from, limit>>

\* lines 108-116: head of the loop over sets, get_cards_from_set
BNextSet ==
  /\ bpc = "set"
  /\ IF set_idx >= Len(all_sets)
     THEN /\ bpc' = "final"
          /\ UNCHANGED <<cards, card_idx, run_clean>>
     ELSE \E got \in {"ok", "status", "raise"} :
            \/ /\ got = "ok"
               /\ cards' = all_sets[set_idx + 1].cards
               /\ card_idx' = 1
               /\ bpc' = "card"
               /\ UNCHANGED run_clean
            \/ /\ got = "status"
               /\ cards' = <<>>
               /\ card_idx' = 1
               /\ bpc' = "card"
               /\ run_clean' = FALSE
            \/ /\ got = "raise"
               /\ bpc' = "crashed"
               /\ run_clean' = FALSE
               /\ UNCHANGED <<cards, card_idx>>
  /\ UNCHANGED <<fileVars, svcVars, upstream, batch_size, start_from, limit, existing_df,
                 existing_ids, all_sets, new_hashes, total_processed, total_added,
                 total_skipped, set_idx, run, loaded_df, fetched, last_outcome,
                 prev_clean>>

\* the presence check left out
InCatalogNever(card_id, ids) == FALSE

\* line 130: card_id in existing_ids
InCatalog(card_id, ids) == card_id \in ids

\* lines 136-143: the card's image URL, if it has one
ImageUrl(card) == card.image

\* what a request for the image can come to: lines 42-65
FetchOutcomes == {"ok", "http", "timeout", "network", "decode"}

\* hashes returned whatever the request came to
HashedAlways(got) == TRUE

\* line 154, `if hashes:`: compute_hashes_for_image returns the hashes only
\* when the image was fetched and decoded, None with the error otherwise
Hashed(got) == got = "ok"

\* lines 118-165: one card of the current set, up to the batch check; past
\* the last card, or on the limit, lines 185-187 after the loop over cards
BCard ==
  /\ bpc = "card"
  /\ IF card_idx > Len(cards) \/ LimitReached(limit, total_processed)
     THEN \* the loop over cards ends (exhausted, or break on the limit)
          /\ IF LimitReached(limit, total_processed)
             THEN /\ bpc' = "final"
                  /\ run_clean' = FALSE
                  /\ UNCHANGED set_idx
             ELSE /\ bpc' = "set"
                  /\ set_idx' = set_idx + 1
                  /\ UNCHANGED run_clean
          /\ UNCHANGED <<card_idx, new_hashes, total_processed, total_added,
                         total_skipped, fetched, last_outcome>>
     ELSE LET card == cards[card_idx] IN
          /\ total_processed' = total_processed + 1
          /\ UNCHANGED set_idx
          /\ IF InCatalog(card.id, existing_ids)
             THEN \* already in the catalog: continue
                  /\ total_skipped' = total_skipped + 1
                  /\ card_idx' = card_idx + 1
                  /\ bpc' = "card"
                  /\ last_outcome' = "skipped"
                  /\ UNCHANGED <<new_hashes, total_added, fetched, run_clean>>
             ELSE IF ImageUrl(card) = NoImage
             THEN \* "No image URL": continue
                  /\ card_idx' = card_idx + 1
                  /\ bpc' = "card"
                  /\ last_outcome' = "noimage"
                  /\ run_clean' = FALSE
                  /\ UNCHANGED <<new_hashes, total_added, total_skipped, fetched>>
             ELSE \* compute_hashes_for_image
                  /\ fetched' = fetched \cup {card.id}
                  /\ card_idx' = card_idx
                  /\ bpc' = "batch"
                  /\ UNCHANGED total_skipped
                  /\ \E got \in FetchOutcomes :
                       /\ last_outcome' = got
                       /\ IF Hashed(got)
                          THEN /\ new_hashes' = Append(new_hashes,
                                     Row(card.id, compute_hashes(ImageUrl(card))))
                               /\ total_added' = total_added + 1
                               /\ UNCHANGED run_clean
                          ELSE /\ run_clean' = FALSE
                               /\ UNCHANGED <<new_hashes, total_added>>
  /\ UNCHANGED <<fileVars, svcVars, upstream, batch_size, start_from, limit, existing_df,
                 existing_ids, all_sets, cards, run, loaded_df, prev_clean>>

\* the batch saved only once it is larger than batch_size
BatchFullLate(pending, size) == Len(pending) > size

\* line 168: len(new_hashes) >= batch_size
BatchFull(pending, size) == Len(pending) >= size

\* lines 167-183: save the batch when it is full, then the next card
BBatch ==
  /\ bpc = "batch"
  /\ IF BatchFull(new_hashes, batch_size)
     THEN LET updated_df == Concat(existing_df, new_hashes) IN
          /\ pickle' = to_pickle(updated_df)
          /\ existing_df' = updated_df
          /\ existing_ids' = existing_ids \cup IdsOf(new_hashes)
          /\ new_hashes' = <<>>
     ELSE UNCHANGED <<pickle, existing_df, existing_ids, new_hashes>>
  /\ card_idx' = card_idx + 1
  /\ bpc' = "card"
  /\ UNCHANGED <<csv, svcVars, upstream, batch_size, start_from, limit, all_sets,
                 total_processed, total_added, total_skipped, set_idx, cards, run,
                 loaded_df, fetched, last_outcome, run_clean, prev_clean>>

\* lines 189-219: save the remaining cards, export the CSV, print the summary
BFinal ==
  /\ bpc = "final"
  /\ pickle' = IF new_hashes # <<>>
               THEN to_pickle(Concat(existing_df, new_hashes))
               ELSE pickle
  /\ csv' = IF pickle'.exists THEN to_csv(pickle'.df) ELSE csv
  /\ bpc' = "done"
  /\ UNCHANGED <<svcVars, builderVars_but_bpc>>

\* lines 243-251: KeyboardInterrupt leaves update_hash_database where it is;
\* __main__ prints "Progress has been saved" and the process exits
BInterrupt ==
  /\ bpc \in Running
  /\ bpc' = "interrupted"
  /\ UNCHANGED <<fileVars, svcVars, builderVars_but_bpc>>

(***************************************************************************)
(* Standalone script: compute_hash.py.                                     *)
(***************************************************************************)
ScriptHashSize == 16
ScriptBinbits == 8

\* an image file PIL cannot open
Unreadable == "unreadable"

\* the None compute_card_hash returns after printing the error
NoHashes == [error |-> "Error computing hash"]

\* lines 10-29: the four hashes as strings, None when anything raises
compute_card_hash(image_path) ==
  IF image_path = Unreadable
  THEN NoHashes
  ELSE [perceptual |-> AsStr(phash(image_path, ScriptHashSize)),
        difference |-> AsStr(dhash(image_path, ScriptHashSize)),
        wavelet    |-> AsStr(whash(image_path, ScriptHashSize)),
        color      |-> AsStr(colorhash(image_path, ScriptBinbits))]

\* lines 31-44: one run of the script on an image file
ScriptRun ==
  /\ Len(printed) < MaxPrinted
  /\ \E image_path \in Images \cup {Unreadable} :
       LET hashes == compute_card_hash(image_path) IN
       IF hashes # NoHashes
       THEN printed' = Append(printed, [image |-> image_path, hashes |-> hashes])
       ELSE UNCHANGED printed       \* sys.exit(1), nothing on stdout
  /\ UNCHANGED <<fileVars, builderVars, card_hashes, th, probe>>

(***************************************************************************)
(* Matching service: api.py.                                               *)
(***************************************************************************)
Threads == {1, 2}

HashTypes == {"perceptual", "difference", "wavelet", "color"}

\* get_hashes(img)
get_hashes(img) ==
  [perceptual |-> phash(img, HashSize),
   difference |-> dhash(img, HashSize),
   wavelet    |-> whash(img, HashSize),
   color      |-> colorhash(img, ColorBinbits)]

\* ImageHash.__sub__: the number of positions where the two arrays differ
\* (of equal length: the service computes every fingerprint with get_hashes)
HashDiff(a, b) == Cardinality((a.ones \ b.ones) \cup (b.ones \ a.ones))

\* lines 50-51: the "distance" column for a query
RECURSIVE Subtract(_, _, _)
Subtract(rows, hash_type, hash) ==
  IF rows = <<>> THEN <<>>
  ELSE Append(Subtract(SubSeq(rows, 1, Len(rows) - 1), hash_type, hash),
              HashDiff(rows[Len(rows)][hash_type], hash))

DistanceColumn(df, hash_type, hashes_dict) ==
  Subtract(df.rows, hash_type, hashes_dict[hash_type])

WithDistance(df, dist) ==
  DataFrame(TRUE, [i \in DOMAIN df.rows |-> [df.rows[i] EXCEPT !.distance = dist[i]]])

\* ndarray.argsort(kind="mergesort") of the values at the positions ns:
\* stable, equal values keep their order
RECURSIVE InsertStable(_, _, _)
InsertStable(sorted, i, dist) ==
  IF sorted = <<>> THEN <<i>>
  ELSE IF dist[Head(sorted)] <= dist[i]
       THEN <<Head(sorted)>> \o InsertStable(Tail(sorted), i, dist)
       ELSE <<i>> \o sorted

RECURSIVE MergeSort(_, _)
MergeSort(ns, dist) ==
  IF ns = <<>> THEN <<>>
  ELSE InsertStable(MergeSort(SubSeq(ns, 1, Len(ns) - 1), dist), ns[Len(ns)], dist)

\* Series.sort_values(): kind="quicksort", which is not stable, so rows of
\* equal value come out in any order
RECURSIVE QuickSortOrders(_, _)
QuickSortOrders(S, dist) ==
  IF S = {} THEN {<<>>}
  ELSE LET least == {i \in S : \A j \in S : dist[i] <= dist[j]}
       IN UNION {{<<i>> \o rest : rest \in QuickSortOrders(S \ {i}, dist)} : i \in least}

Indices(dist) == [i \in 1..Len(dist) |-> i]

RECURSIVE SelectSeq2(_, _, _)
SelectSeq2(ns, dist, kth_val) ==
  IF ns = <<>> THEN <<>>
  ELSE IF dist[Head(ns)] <= kth_val
       THEN <<Head(ns)>> \o SelectSeq2(Tail(ns), dist, kth_val)
       ELSE SelectSeq2(Tail(ns), dist, kth_val)

\* algos.kth_smallest(arr, k): the value of rank k
kth_smallest(dist, k) == dist[MergeSort(Indices(dist), dist)[k]]

\* Series.nsmallest(n).index (keep="first"): the index sequences it can return
nsmallest(dist, n) ==
  IF n <= 0 THEN {<<>>}
  ELSE IF n >= Len(dist)
       THEN \* "slow method": sort_values(ascending=True).head(n)
            QuickSortOrders(DOMAIN dist, dist)
       ELSE \* "fast method": the values <= the n-th smallest, merge-sorted
            LET kth_val == kth_smallest(dist, n)
                ns == SelectSeq2(Indices(dist), dist, kth_val)
            IN {SubSeq(MergeSort(ns, dist), 1, n)}

\* lines 54-62: the result list for the chosen rows
Results(df, dist, min_rows) ==
  [k \in DOMAIN min_rows |-> [id |-> df.rows[min_rows[k]].id, distance |-> dist[min_rows[k]]]]

\* line 347 and line 374: max(50, min(100, 100 - distance / 3)) rounded to one
\* decimal, in tenths. 100 - d/3 is (300 - d)/3; its tenths are never half way
\* between two integers, so rounding is to the nearest.
Max(a, b) == IF a >= b THEN a ELSE b
Min(a, b) == IF a <= b THEN a ELSE b

\* the same without the clamp to [50, 100]
ConfidenceUnclamped(distance) == (20 * (300 - distance) + 3) \div 6

Confidence(distance) ==
  LET thirds == Max(50 * 3, Min(100 * 3, 300 - distance))
  IN (20 * thirds + 3) \div 6

\* Request bodies: an image is a decodable image, absent, or undecodable
Missing == "missing"
Garbage == "garbage"
NoId == <<>>

NoBest == [id |-> NoId, distance |-> NaN]

\* An image URL: the template it was formatted with and the values put in;
\* card_num is the sequence of its '-'-separated segments.
Url(template, set_id, card_num) ==
  [template |-> template, set_id |-> set_id, card_num |-> card_num]

NoUrl == Url("none", "", <<>>)

\* A JSON response: the HTTP status and the fields the handlers fill in
Response(op, status, error) ==
  [op |-> op, status |-> status, error |-> error, matches |-> <<>>,
   best_match |-> NoBest, cardId |-> NoId, distance |-> NaN, confidence |-> NaN,
   imageUrl |-> NoUrl, total_cards |-> NaN]

NoResponse == Response("none", 0, "")

\* the exception answered as a success
ErrorResponseSuccess(op, e) == Response(op, 200, "")

\* `except Exception as e: return jsonify({"success": False, "error": str(e)}), 500`
ErrorResponse(op, e) == Response(op, 500, e)

\* The body of a request; a field the request does not carry is Missing,
\* NoId or NaN.
Request(op, card_id, image, hash_type, n, threshold) ==
  [op |-> op, card_id |-> card_id, image |-> image, hash_type |-> hash_type,
   n |-> n, threshold |-> threshold]

NoRequest == Request("none", NoId, Missing, "", NaN, NaN)

\* A server thread: where its handler stands, the request it handles (kept
\* after the reply, as the last request handled), the frame add_card has
\* built and not yet assigned, the rows get_most_similar has selected, and
\* its last response.
IdleThread == [pc |-> "idle", req |-> NoRequest, new_df |-> EmptyFrame,
               min_rows |-> <<>>, resp |-> NoResponse]

Idle(t) == th[t].pc = "idle"

\* Whether the handler of thread t may start: `serial` is the server
\* handling one request at a time.
MayStart(t, serial) ==
  /\ Idle(t)
  /\ serial => \A u \in Threads : Idle(u)

Reply(t, req, resp) ==
  th' = [th EXCEPT ![t] = [pc |-> "idle", req |-> req, new_df |-> EmptyFrame,
                           min_rows |-> <<>>, resp |-> resp]]

\* the duplicate check left out
ExistsNever(df, card_id) == FALSE

\* line 243: card_id in card_hashes["id"].values
Exists(df, card_id) == card_id \in IdsOf(df.rows)

\* lines 234-263 of add_card: validation, the duplicate check, decoding, hashing
AddCardBegin(t, serial, card_id, image) ==
  LET req == Request("add_card", card_id, image, "", NaN, NaN) IN
  /\ MayStart(t, serial)
  /\ IF image = Missing \/ card_id = NoId
     THEN Reply(t, req, Response("add_card", 400, "Missing image or card_id"))
     ELSE IF Exists(card_hashes, card_id)
     THEN Reply(t, req, Response("add_card", 400, "already exists"))
     ELSE IF image = Garbage
     THEN Reply(t, req, ErrorResponse("add_card", "cannot identify image"))
     ELSE th' = [th EXCEPT ![t] = [pc |-> "add_concat", req |-> req,
                                   new_df |-> EmptyFrame, min_rows |-> <<>>,
                                   resp |-> NoResponse]]
  /\ UNCHANGED <<fileVars, builderVars, card_hashes, probe, printed>>

\* line 265, right-hand side: pd.concat([card_hashes, pd.DataFrame([new_row])])
AddCardConcat(t) ==
  /\ th[t].pc = "add_concat"
  /\ th' = [th EXCEPT ![t].pc = "add_assign",
                      ![t].new_df = Concat(card_hashes,
                                      <<Row(th[t].req.card_id, get_hashes(th[t].req.image))>>)]
  /\ UNCHANGED <<fileVars, builderVars, card_hashes, probe, printed>>

\* line 265, the assignment to the global
AddCardAssign(t) ==
  /\ th[t].pc = "add_assign"
  /\ card_hashes' = th[t].new_df
  /\ th' = [th EXCEPT ![t].pc = "add_pickle", ![t].new_df = EmptyFrame]
  /\ UNCHANGED <<fileVars, builderVars, probe, printed>>

\* line 268: card_hashes.to_pickle(...), which may raise (line 284)
AddCardPickle(t) ==
  /\ th[t].pc = "add_pickle"
  /\ \E written \in BOOLEAN :
       IF written
       THEN /\ pickle' = to_pickle(card_hashes)
            /\ th' = [th EXCEPT ![t].pc = "add_respond"]
       ELSE /\ UNCHANGED pickle
            /\ Reply(t, th[t].req, ErrorResponse("add_card", "cannot write"))
  /\ UNCHANGED <<csv, builderVars, card_hashes, probe, printed>>

\* lines 270-282: the success response with len(card_hashes)
AddCardRespond(t) ==
  /\ th[t].pc = "add_respond"
  /\ Reply(t, th[t].req, [Response("add_card", 200, "") EXCEPT
                            !.cardId = th[t].req.card_id,
                            !.total_cards = Len(card_hashes.rows)])
  /\ UNCHANGED <<fileVars, builderVars, card_hashes, probe, printed>>

\* lines 37-62, get_most_similar: the frame with its "distance" column
\* rewritten, and the result lists the call can return
get_most_similar(df, img, hash_type, n) ==
  LET dist == DistanceColumn(df, hash_type, get_hashes(img)) IN
  [df |-> WithDistance(df, dist),
   results |-> {Results(df, dist, min_rows) : min_rows \in nsmallest(dist, n)}]

\* lines 71-117, match_card
MatchCard(t, serial, image, hash_type, n) ==
  LET req == Request("match", NoId, image, hash_type, n, NaN) IN
  /\ MayStart(t, serial)
  /\ IF image = Missing
     THEN /\ Reply(t, req, Response("match", 400, "Missing image data"))
          /\ UNCHANGED card_hashes
     ELSE IF image = Garbage
     THEN /\ Reply(t, req, ErrorResponse("match", "cannot identify image"))
          /\ UNCHANGED card_hashes
     ELSE IF hash_type \notin HashTypes
     THEN \* KeyError from hashes_dict[hash_type], before any assignment
          /\ Reply(t, req, ErrorResponse("match", "KeyError"))
          /\ UNCHANGED card_hashes
     ELSE LET got == get_most_similar(card_hashes, image, hash_type, n) IN
          /\ card_hashes' = got.df
          /\ \E matches \in got.results :
               Reply(t, req, [Response("match", 200, "") EXCEPT !.matches = matches])
  /\ UNCHANGED <<fileVars, builderVars, probe, printed>>

TopN == 10
TopMatches == 5
DefaultThreshold == 30
DefaultTopN == 5

\* set_id.startswith(prefix), for the set ids of the model
StartsWith(set_id, prefix) ==
  <<set_id, prefix>> \in {<<"sv1", "sv">>, <<"xy7", "xy">>}

ModernPrefixes == {"sv", "swsh", "sm", "xy"}

\* lines 354-368: the image URL for a card id. parts = card_id.split("-")
\* is the sequence of the id's segments; card_num is parts[1], the second.
image_url(card_id) ==
  IF Len(card_id) > 1
  THEN LET parts == card_id
           set_id == parts[1]
           card_num == <<parts[2]>>
       IN IF \E prefix \in ModernPrefixes : StartsWith(set_id, prefix)
          THEN Url("assets.tcgdex.net/en/{set_id}/{card_num}/high.png", set_id, card_num)
          ELSE Url("images.pokemontcg.io/{set_id}/{card_num}_hires.png", set_id, card_num)
  ELSE Url("assets.tcgdex.net/en/{card_id}/high.png", card_id[1], <<>>)

\* an empty result answered as a match that is not good enough
NoMatchesFoundAsNoGoodMatch == Response("recognize", 404, "No good match found")

\* lines 331-334: the answer when get_most_similar returned no match
NoMatchesFound == Response("recognize", 404, "No matches found")

\* lines 330-384 of recognize_card: what it answers for the matches found
RecognizeResult(matches, threshold) ==
  IF matches = <<>>
  THEN NoMatchesFound
  ELSE LET best_match == matches[1] IN
       IF best_match.distance > threshold
       THEN [Response("recognize", 404, "No good match found")
               EXCEPT !.best_match = best_match]
       ELSE [Response("recognize", 200, "") EXCEPT
               !.cardId = best_match.id,
               !.distance = best_match.distance,
               !.confidence = Confidence(best_match.distance),
               !.imageUrl = image_url(best_match.id),
               !.matches = SubSeq(matches, 1, Min(TopMatches, Len(matches)))]

\* lines 288-387, recognize_card
RecognizeCard(t, serial, image, hash_type, threshold) ==
  LET req == Request("recognize", NoId, image, hash_type, NaN, threshold) IN
  /\ MayStart(t, serial)
  /\ IF image = Missing
     THEN /\ Reply(t, req, Response("recognize", 400, "Missing image data"))
          /\ UNCHANGED card_hashes
     ELSE IF image = Garbage
     THEN /\ Reply(t, req, ErrorResponse("recognize", "cannot identify image"))
          /\ UNCHANGED card_hashes
     ELSE IF hash_type \notin HashTypes
     THEN /\ Reply(t, req, ErrorResponse("recognize", "KeyError"))
          /\ UNCHANGED card_hashes
     ELSE LET got == get_most_similar(card_hashes, image, hash_type, TopN) IN
          /\ card_hashes' = got.df
          /\ \E matches \in got.results :
               Reply(t, req, RecognizeResult(matches, threshold))
  /\ UNCHANGED <<fileVars, builderVars, probe, printed>>

\* The same two handlers statement by statement, as the threads of the
\* server run them. Lines 94-105 and 314-325: validation, decoding, parameters
QueryBegin(t, op, image, hash_type, n, threshold) ==
  LET req == Request(op, NoId, image, hash_type, n, threshold) IN
  /\ MayStart(t, FALSE)
  /\ IF image = Missing
     THEN Reply(t, req, Response(op, 400, "Missing image data"))
     ELSE IF image = Garbage
     THEN Reply(t, req, ErrorResponse(op, "cannot identify image"))
     ELSE IF hash_type \notin HashTypes
     THEN Reply(t, req, ErrorResponse(op, "KeyError"))
     ELSE th' = [th EXCEPT ![t] = [pc |-> "distance", req |-> req,
                                   new_df |-> EmptyFrame, min_rows |-> <<>>,
                                   resp |-> NoResponse]]
  /\ UNCHANGED <<fileVars, builderVars, card_hashes, probe, printed>>

\* lines 49-51: the "distance" column of the global frame is assigned
QueryDistance(t) ==
  /\ th[t].pc = "distance"
  /\ card_hashes' = WithDistance(card_hashes,
                       DistanceColumn(card_hashes, th[t].req.hash_type,
                                      get_hashes(th[t].req.image)))
  /\ th' = [th EXCEPT ![t].pc = "nsmallest"]
  /\ UNCHANGED <<fileVars, builderVars, probe, printed>>

\* card_hashes["distance"] as the global frame has it now
DistanceNow(df) == [i \in DOMAIN df.rows |-> df.rows[i].distance]

\* line 53: nsmallest over the column the global frame has now
QuerySelect(t) ==
  /\ th[t].pc = "nsmallest"
  /\ \E min_rows \in nsmallest(DistanceNow(card_hashes),
                                IF th[t].req.op = "recognize" THEN TopN ELSE th[t].req.n) :
       th' = [th EXCEPT ![t].pc = "results", ![t].min_rows = min_rows]
  /\ UNCHANGED <<fileVars, builderVars, card_hashes, probe, printed>>

\* lines 54-62: ids and distances read from the global frame, then the reply
\* of match_card (lines 110-114) or recognize_card (lines 330-384)
QueryCollect(t) ==
  /\ th[t].pc = "results"
  /\ LET matches == Results(card_hashes, DistanceNow(card_hashes), th[t].min_rows) IN
       IF th[t].req.op = "match"
       THEN Reply(t, th[t].req, [Response("match", 200, "") EXCEPT !.matches = matches])
       ELSE Reply(t, th[t].req, RecognizeResult(matches, th[t].req.threshold))
  /\ UNCHANGED <<fileVars, builderVars, card_hashes, probe, printed>>

(***************************************************************************)
(* Catalogs and requests the model starts from and draws.                  *)
(***************************************************************************)
CatalogOf(pairs) ==
  DataFrame(FALSE, [i \in DOMAIN pairs |-> Row(pairs[i][1], get_hashes(pairs[i][2]))])

Numbers == <<"1", "2", "3", "4", "5", "6", "7", "8", "9", "10", "11">>

\* eleven cards, more than recognize asks nsmallest for; four of them tie
\* at every query
BigCatalog ==
  CatalogOf([i \in DOMAIN Numbers |->
               <<<<"xy7", Numbers[i]>>,
                 IF i \in {2, 3, 6, 9} THEN "i5" ELSE IF i = 5 THEN "i0" ELSE "i12">>])

Catalogs ==
  { CatalogOf(<<>>),
    CatalogOf(<< <<IdBase, "i0">> >>),
    CatalogOf(<< <<IdSv1, "i0">>, <<IdSv2, "i5">>, <<IdBase, "i12">> >>),
    CatalogOf(<< <<IdSv1, "i5">>, <<IdSv2, "i5">>, <<IdBase, "i0">> >>),
    CatalogOf(<< <<IdPA, "i0">>, <<IdPromo, "i30">> >>),
    BigCatalog }

\* add_card requests: a new or known id with an image, and the malformed ones
AddRequests(ids) ==
  {<<id, "i160">> : id \in ids}
    \cup {<<IdSv1, Missing>>, <<NoId, "i160">>, <<IdSv1, Garbage>>, <<IdPromo, Garbage>>}

AddIds        == {IdSv1}
ConcurrentIds == {IdSv1, IdPromo}

QueryImages == {"i0", "i30"}
QueryTypes  == {"perceptual", "color"}
QueryNs     == -1..MaxN
Thresholds  == {10, DefaultThreshold, 200}

\* match requests: every query image with two fingerprint types and every
\* top_n, with the other two types and the default top_n, and the requests
\* that fail
MatchRequests ==
  (QueryImages \X QueryTypes \X QueryNs)
    \cup (QueryImages \X (HashTypes \ QueryTypes) \X {DefaultTopN})
    \cup {<<Missing, "perceptual", DefaultTopN>>, <<Garbage, "perceptual", DefaultTopN>>,
          <<"i0", "id", DefaultTopN>>, <<"i0", "distance", DefaultTopN>>}

RecognizeRequests ==
  (QueryImages \X QueryTypes \X Thresholds)
    \cup (QueryImages \X (HashTypes \ QueryTypes) \X {DefaultThreshold})
    \cup {<<Missing, "perceptual", DefaultThreshold>>,
          <<Garbage, "perceptual", DefaultThreshold>>,
          <<"i0", "id", DefaultThreshold>>, <<"i0", "distance", DefaultThreshold>>}

DefaultListing ==
  << CardSet("sv1", 2, <<Card(IdSv1, "i0"), Card(IdSv2, "i5")>>),
     CardSet("base4", 1, <<Card(IdBase, "i12")>>) >>

\* the builder before its first run
BuilderIdle ==
  /\ bpc = "idle"
  /\ existing_df = EmptyFrame
  /\ existing_ids = {}
  /\ all_sets = <<>>
  /\ new_hashes = <<>>
  /\ total_processed = 0
  /\ total_added = 0
  /\ total_skipped = 0
  /\ set_idx = 0
  /\ cards = <<>>
  /\ card_idx = 1
  /\ run = 0
  /\ loaded_df = EmptyFrame
  /\ fetched = {}
  /\ last_outcome = "none"
  /\ run_clean = TRUE
  /\ prev_clean = FALSE

(***************************************************************************)
(* The service handling one request at a time.                             *)
(***************************************************************************)
\* line 19: the service loads the pickle when it starts
Init ==
  /\ \E c \in Catalogs : pickle = to_pickle(c)
  /\ csv = [exists |-> FALSE, rows |-> <<>>]
  /\ card_hashes = pickle.df
  /\ th = [t \in Threads |-> IdleThread]
  /\ probe = NoResponse
  /\ printed = <<>>
  /\ upstream = DefaultListing
  /\ batch_size = 1
  /\ start_from = 0
  /\ limit = None
  /\ BuilderIdle

AddCard(t, serial, ids) ==
  \E r \in AddRequests(ids) : AddCardBegin(t, serial, r[1], r[2])

Match(t, serial) ==
  \E r \in MatchRequests : MatchCard(t, serial, r[1], r[2], r[3])

Recognize(t, serial) ==
  \E r \in RecognizeRequests : RecognizeCard(t, serial, r[1], r[2], r[3])

Next ==
  \/ AddCard(1, TRUE, AddIds)
  \/ AddCardConcat(1)
  \/ AddCardAssign(1)
  \/ AddCardPickle(1)
  \/ AddCardRespond(1)
  \/ Match(1, TRUE)
  \/ Recognize(1, TRUE)

Spec == Init /\ [][Next]_vars

(***************************************************************************)
(* The catalog builder, run after run.                                     *)
(***************************************************************************)
BuilderCatalogs ==
  { CatalogOf(<< <<IdSv1, "i0">> >>),
    CatalogOf(<< <<IdBase, "i12">>, <<IdSv2, "i5">> >>) }

BuilderInit ==
  /\ pickle \in {[exists |-> FALSE, df |-> EmptyFrame]}
                 \cup {to_pickle(c) : c \in BuilderCatalogs}
  /\ csv = [exists |-> FALSE, rows |-> <<>>]
  /\ card_hashes = EmptyFrame
  /\ th = [t \in Threads |-> IdleThread]
  /\ probe = NoResponse
  /\ printed = <<>>
  /\ upstream \in Listings
  /\ batch_size \in 1..MaxBatch
  /\ start_from \in 0..MaxStart
  /\ limit \in {None} \cup (0..MaxLimit)
  /\ BuilderIdle

BuilderNext ==
  \/ BStart
  \/ BNextSet
  \/ BCard
  \/ BBatch
  \/ BFinal
  \/ BInterrupt

SpecBuilder == BuilderInit /\ [][BuilderNext]_vars

(***************************************************************************)
(* The service handling add_card requests on two threads.                  *)
(***************************************************************************)
ConcurrentNext ==
  \E t \in Threads :
    \/ AddCard(t, FALSE, ConcurrentIds)
    \/ AddCardConcat(t)
    \/ AddCardAssign(t)
    \/ AddCardPickle(t)
    \/ AddCardRespond(t)

SpecConcurrent == Init /\ [][ConcurrentNext]_vars

(***************************************************************************)
(* The service handling match and recognize requests on two threads.       *)
(***************************************************************************)
\* the queries the two threads send: every query image and fingerprint type
ConcurrentQueries ==
  {<<"match", img, ht, 2, NaN>> : img \in QueryImages, ht \in QueryTypes}
    \cup {<<"recognize", img, ht, NaN, DefaultThreshold>> :
             img \in QueryImages, ht \in QueryTypes}
    \cup {<<"match", Missing, "perceptual", DefaultTopN, NaN>>,
          <<"recognize", "i0", "id", NaN, DefaultThreshold>>}

Query(t) ==
  \E r \in ConcurrentQueries : QueryBegin(t, r[1], r[2], r[3], r[4], r[5])

MatchingCatalogs ==
  { CatalogOf(<< <<IdSv1, "i0">>, <<IdSv2, "i5">>, <<IdBase, "i12">> >>),
    CatalogOf(<< <<IdSv1, "i5">>, <<IdSv2, "i5">>, <<IdBase, "i0">> >>) }

MatchingInit == Init /\ card_hashes \in MatchingCatalogs

MatchingNext ==
  \E t \in Threads :
    \/ Query(t)
    \/ QueryDistance(t)
    \/ QuerySelect(t)
    \/ QueryCollect(t)

SpecMatching == MatchingInit /\ [][MatchingNext]_vars

(***************************************************************************)
(* The standalone script run on image after image, beside a catalog.       *)
(***************************************************************************)
SpecScript == Init /\ [][ScriptRun]_vars

(***************************************************************************)
(* The two writers of card_hashes_32b.pickle: the service handling         *)
(* add_card requests while the catalog builder runs.                       *)
(***************************************************************************)
WritersNext ==
  \/ AddCard(1, TRUE, ConcurrentIds)
  \/ AddCardConcat(1)
  \/ AddCardAssign(1)
  \/ AddCardPickle(1)
  \/ AddCardRespond(1)
  \/ BStart
  \/ BNextSet
  \/ BCard
  \/ BBatch
  \/ BFinal
  \/ BInterrupt

\* the service has loaded a catalog of one card; the builder has not started
WritersInit == Init /\ card_hashes = CatalogOf(<< <<IdBase, "i0">> >>)

SpecWriters == WritersInit /\ [][WritersNext]_vars

(***************************************************************************)
(* recognize_card's verdict over every best distance and threshold.        *)
(***************************************************************************)
\* lines 336-384 for a best match at distance d
Verdict ==
  /\ \E d \in 0..MaxDistance, threshold \in Thresholds :
       probe' = RecognizeResult(<<[id |-> IdBase, distance |-> d]>>, threshold)
  /\ UNCHANGED <<fileVars, builderVars, card_hashes, th, printed>>

VerdictInit == Init /\ card_hashes = CatalogOf(<<>>)

SpecVerdict == VerdictInit /\ [][Verdict]_vars

(***************************************************************************)
(* Properties of the catalog builder (checked under SpecBuilder).          *)
(***************************************************************************)
LoadedIds == IdsOf(loaded_df.rows)

DurableIds == IdsOf(pickle.df.rows)

\* C1: when the builder has been interrupted, every record of the pending
\* batch is in the durable catalog.
C1_InterruptFlushesPending ==
  bpc = "interrupted" => IdsOf(new_hashes) \subseteq DurableIds

\* the builder handles, in this step, a card whose id the run loaded from
\* the durable catalog
C7_AtLoadedCard ==
  /\ bpc = "card"
  /\ bpc' # "interrupted"
  /\ card_idx <= Len(cards)
  /\ ~LimitReached(limit, total_processed)
  /\ cards[card_idx].id \in LoadedIds

C7_Step ==
  C7_AtLoadedCard =>
    /\ total_skipped' = total_skipped + 1
    /\ fetched' = fetched
    /\ new_hashes' = new_hashes
    /\ total_added' = total_added
    /\ pickle' = pickle

C7_State ==
  /\ fetched \cap LoadedIds = {}
  /\ IdsOf(new_hashes) \cap LoadedIds = {}
  /\ prev_clean /\ bpc # "idle" =>
       /\ total_added = 0
       /\ new_hashes = <<>>
       /\ pickle.df = loaded_df

\* C7: a run never reprocesses a card whose id was in the durable catalog
\* when the run started: the step that handles such a card increments
\* total_skipped and fetches no image, appends nothing to the pending batch
\* and does not increment total_added; a rerun after a complete run without
\* failures adds no record and leaves the durable catalog as it was.
C7_NeverReprocesses == []C7_State /\ [][C7_Step]_vars

\* C7 witness: a rerun after a clean complete run has skipped cards and ended
C7_Witness ==
  /\ prev_clean
  /\ bpc = "done"
  /\ total_skipped >= 2
  /\ total_skipped = total_processed
  /\ LoadedIds # {}

\* C8: the pending batch together with the catalog the builder holds, and
\* every snapshot it has persisted, hold each id at most once.
C8_UniqueById ==
  /\ UniqueById(existing_df.rows \o new_hashes)
  /\ UniqueById(pickle.df.rows)

\* how a card ends that fails: its image request, its decoding, or no image
CardFailures == (FetchOutcomes \ {"ok"}) \cup {"noimage"}

\* this step handles a card, and the card fails
C13_CardFails ==
  /\ bpc = "card"
  /\ total_processed' = total_processed + 1
  /\ last_outcome' \in CardFailures

C13_Step ==
  /\ C13_CardFails =>
       /\ new_hashes' = new_hashes
       /\ existing_ids' = existing_ids
       /\ total_added' = total_added
       /\ pickle' = pickle
       /\ \/ bpc' = "batch" /\ card_idx' = card_idx
          \/ bpc' = "card" /\ card_idx' = card_idx + 1
  /\ (bpc = "batch" /\ last_outcome \in CardFailures /\ bpc' # "interrupted") =>
       /\ bpc' = "card"
       /\ card_idx' = card_idx + 1
       /\ new_hashes' = new_hashes
       /\ existing_ids' = existing_ids
       /\ total_added' = total_added
  /\ ( /\ bpc = "card"
       /\ card_idx <= Len(cards)
       /\ ~LimitReached(limit, total_processed)
       /\ bpc' # "interrupted" ) =>
       /\ total_processed' = total_processed + 1
       /\ last_outcome' \in CardFailures \cup {"ok", "skipped"}

\* C13: a card that fails (image request timed out, network error, HTTP
\* status, undecodable image, no image URL) is not appended to the pending
\* batch nor added to existing_ids, total_added stays, and the run goes on
\* to the next card; every card reached within the limit is processed.
C13_PerCardFailureIsLocal == [][C13_Step]_vars

\* C13 witness: the first card's image request failed, the second card was
\* hashed and added
C13_Witness ==
  /\ Cardinality(fetched) = 2
  /\ total_processed = 2
  /\ total_added = 1
  /\ total_skipped = 0
  /\ last_outcome = "ok"
  /\ Len(new_hashes) = 1

\* C14: a failure of the request for a set's card list (HTTP status,
\* timeout, network error) never ends the run: the run is past its final
\* save whenever it has ended after the list of sets was fetched, and then
\* every record of the pending batch is in the durable catalog.
C14_SetFailureSkipsSet ==
  (bpc \in Ended \ {"interrupted"} /\ all_sets # <<>>) =>
    /\ bpc = "done"
    /\ IdsOf(new_hashes) \subseteq DurableIds

\* C17: with a limit given (any integer >= 0) total_processed never
\* exceeds it.
C17_LimitBoundsProcessed == limit # None => total_processed <= limit

C20_State ==
  /\ bpc \in {"set", "card", "final"} => Len(new_hashes) < batch_size
  /\ bpc = "done" =>
       /\ Len(pickle.df.rows) = Len(loaded_df.rows) + total_added
       /\ IdsOf(new_hashes) \subseteq DurableIds

C20_Step ==
  /\ (bpc = "batch" /\ bpc' = "card" /\ Len(new_hashes) >= batch_size) =>
       /\ pickle' = to_pickle(Concat(pickle.df, new_hashes))
       /\ new_hashes' = <<>>
       /\ existing_ids' = existing_ids \cup IdsOf(new_hashes)
  /\ (bpc = "batch" /\ bpc' = "card" /\ Len(new_hashes) < batch_size) =>
       /\ pickle' = pickle
       /\ new_hashes' = new_hashes
  /\ (bpc = "final" /\ bpc' = "done" /\ new_hashes # <<>>) =>
       pickle' = to_pickle(Concat(pickle.df, new_hashes))

\* C20: between cards the pending batch holds fewer than batch_size records;
\* a flush writes the durable catalog followed by the pending batch in order,
\* empties the batch and adds the flushed ids to existing_ids; the final save
\* writes the durable catalog followed by the remaining batch, and when the
\* run is done the durable catalog has grown by total_added records.
C20_BatchFlushProtocol == []C20_State /\ [][C20_Step]_vars

\* C20 witness: three cards added with batch_size 2, one flush in the loop
\* and the remaining record saved at the end
C20_Witness ==
  /\ bpc = "done"
  /\ batch_size = 2
  /\ total_added = 3
  /\ Len(new_hashes) = 1
  /\ Len(pickle.df.rows) = Len(loaded_df.rows) + 3

(***************************************************************************)
(* Properties of the service handling one request at a time (Spec).        *)
(***************************************************************************)
MemoryIds == IdsOf(card_hashes.rows)

AddSucceeded(t) ==
  Idle(t) /\ th[t].resp.op = "add_card" /\ th[t].resp.status = 200

C2_State ==
  /\ UniqueById(card_hashes.rows)
  /\ UniqueById(pickle.df.rows)
  /\ \A t \in Threads :
       AddSucceeded(t) =>
         /\ CountId(card_hashes.rows, th[t].resp.cardId) = 1
         /\ CountId(pickle.df.rows, th[t].resp.cardId) = 1

\* thread t takes, in this step, an add_card request that carries an image
\* and an id the catalog already holds
C2_AddOfKnownId(t) ==
  /\ Idle(t)
  /\ th'[t] # th[t]
  /\ th'[t].req.op = "add_card"
  /\ th'[t].req.image # Missing
  /\ th'[t].req.card_id \in MemoryIds

C2_Step ==
  /\ \A t \in Threads :
       C2_AddOfKnownId(t) =>
         /\ th'[t].pc = "idle"
         /\ th'[t].resp.status = 400
         /\ th'[t].resp.error = "already exists"
         /\ card_hashes' = card_hashes
         /\ pickle' = pickle
  /\ MemoryIds \subseteq IdsOf(card_hashes'.rows)
  /\ DurableIds \subseteq IdsOf(pickle'.df.rows)

\* C2: an add_card request (with an image) for an id the catalog holds is
\* answered 400 "already exists" and changes neither the in-memory nor the
\* durable catalog; no step drops a record; both catalogs hold each id at
\* most once and the id of a successful add_card exactly once.
C2_ConflictChangesNothing == []C2_State /\ [][C2_Step]_vars

\* C2 witness: the id added by a first add_card is refused on the second
C2_Witness ==
  /\ Idle(1)
  /\ th[1].resp.error = "already exists"
  /\ th[1].req.card_id = IdSv1
  /\ card_hashes.rows = <<Row(IdSv1, get_hashes("i160"))>>
  /\ pickle.df.rows = card_hashes.rows

MatchAnswered(t) ==
  Idle(t) /\ th[t].resp.op = "match" /\ th[t].resp.status = 200

\* the position of the row with this id
RowOf(id) == CHOOSE i \in DOMAIN card_hashes.rows : card_hashes.rows[i].id = id

\* row i ranks before row j: nearer to the query, or as near and inserted first
RanksBefore(i, j) ==
  LET di == card_hashes.rows[i].distance
      dj == card_hashes.rows[j].distance
  IN di < dj \/ (di = dj /\ i < j)

\* C3: a successful match returns min(max(n, 0), catalog size) records, each
\* a catalog record with its distance to the query, in order of distance with
\* equal distances in insertion order, and no record left out ranks before a
\* returned one.
C3_StableTopN ==
  \A t \in Threads :
    MatchAnswered(t) =>
      LET m == th[t].resp.matches
          n == th[t].req.n
          size == Len(card_hashes.rows)
          chosen == {RowOf(m[k].id) : k \in DOMAIN m}
      IN /\ Len(m) = Min(Max(n, 0), size)
         /\ \A k \in DOMAIN m :
              /\ m[k].id \in MemoryIds
              /\ m[k].distance = card_hashes.rows[RowOf(m[k].id)].distance
         /\ \A k, l \in DOMAIN m :
              k < l => RanksBefore(RowOf(m[k].id), RowOf(m[l].id))
         /\ \A i \in DOMAIN card_hashes.rows \ chosen :
              \A j \in chosen : RanksBefore(j, i)

Recognized(t) ==
  Idle(t) /\ th[t].resp.op = "recognize" /\ th[t].resp.status = 200

\* C4: a recognized card at distance 0 has confidence 100.0, one at distance
\* 30 has confidence 50.0 (confidence is in tenths).
C4_FixedPoints ==
  \A t \in Threads :
    Recognized(t) =>
      /\ th[t].resp.distance = 0 => th[t].resp.confidence = 1000
      /\ th[t].resp.distance = 30 => th[t].resp.confidence = 500

\* the catalog row nearest to the query, the first inserted among equals
BestRow == CHOOSE i \in DOMAIN card_hashes.rows :
             \A j \in DOMAIN card_hashes.rows : i = j \/ RanksBefore(i, j)

\* C6: on a non-empty catalog recognize answers "No good match found" with
\* the best candidate (nearest, first inserted among equals) exactly when that
\* candidate's distance exceeds the threshold; otherwise it succeeds with that
\* candidate's id and distance and at most 5 matches, the first of them the
\* returned card.
C6_BestCandidate ==
  \A t \in Threads :
    ( /\ Idle(t)
      /\ th[t].resp.op = "recognize"
      /\ th[t].resp.status \in {200, 404}
      /\ card_hashes.rows # <<>> ) =>
      LET best == [id |-> card_hashes.rows[BestRow].id,
                   distance |-> card_hashes.rows[BestRow].distance]
          r == th[t].resp
      IN IF best.distance > th[t].req.threshold
         THEN /\ r.status = 404
              /\ r.error = "No good match found"
              /\ r.best_match = best
         ELSE /\ r.status = 200
              /\ r.cardId = best.id
              /\ r.distance = best.distance
              /\ Len(r.matches) <= 5
              /\ r.matches[1].id = r.cardId

\* thread t takes, in this step, a match or recognize request with a
\* decodable image and a hash_type that is none of the four
C15_InvalidHashType(t) ==
  /\ Idle(t)
  /\ th'[t] # th[t]
  /\ th'[t].req.op \in {"match", "recognize"}
  /\ th'[t].req.image \in Images
  /\ th'[t].req.hash_type \notin HashTypes

C15_Step ==
  \A t \in Threads :
    C15_InvalidHashType(t) =>
      /\ th'[t].pc = "idle"
      /\ th'[t].resp = ErrorResponse(th'[t].req.op, "KeyError")
      /\ th'[t].resp.status = 500
      /\ th'[t].resp.matches = <<>>
      /\ th'[t].resp.best_match = NoBest
      /\ th'[t].resp.cardId = NoId
      /\ card_hashes' = card_hashes
      /\ pickle' = pickle

\* C15: a match or recognize request whose hash_type is none of perceptual,
\* difference, wavelet, color (also "id" and "distance", columns of the
\* frame) is answered with the error of the failed lookup, without matches,
\* and the catalog stays as it is.
C15_InvalidHashTypeFails == [][C15_Step]_vars

\* C15 witness: hash_type "distance" refused on a catalog that has the
\* distance column of an earlier query
C15_Witness ==
  /\ Idle(1)
  /\ th[1].req.op = "match"
  /\ th[1].req.hash_type = "distance"
  /\ th[1].resp.status = 500
  /\ th[1].resp.error = "KeyError"
  /\ card_hashes.hasDistance
  /\ card_hashes.rows # <<>>

\* the id split at its first '-' only: the set prefix and the whole rest
SplitFirst(card_id) == [setPrefix |-> Head(card_id), cardNumber |-> Tail(card_id)]

\* C16: the image URL of a recognized card is made from the id split at its
\* first '-' into the set prefix and the whole remainder: the TCGdex template
\* when the prefix starts with sv, swsh, sm or xy, the pokemontcg.io template
\* otherwise, and the template of the whole id when the id has no '-'.
C16_UrlFromFirstSplit ==
  \A t \in Threads :
    Recognized(t) =>
      LET id == th[t].resp.cardId
          s == SplitFirst(id)
      IN th[t].resp.imageUrl =
           IF s.cardNumber = <<>>
           THEN Url("assets.tcgdex.net/en/{card_id}/high.png", id[1], <<>>)
           ELSE IF \E prefix \in ModernPrefixes : StartsWith(s.setPrefix, prefix)
           THEN Url("assets.tcgdex.net/en/{set_id}/{card_num}/high.png",
                    s.setPrefix, s.cardNumber)
           ELSE Url("images.pokemontcg.io/{set_id}/{card_num}_hires.png",
                    s.setPrefix, s.cardNumber)

\* C18: on an empty catalog a match request (decodable image, one of the
\* four fingerprint types, any top_n) is answered with success and an empty
\* list of matches, and a recognize request with "No matches found".
C18_EmptyCatalog ==
  \A t \in Threads :
    ( /\ Idle(t)
      /\ card_hashes.rows = <<>>
      /\ th[t].req.image \in Images
      /\ th[t].req.hash_type \in HashTypes ) =>
      /\ th[t].req.op = "match" =>
           th[t].resp = Response("match", 200, "")
      /\ th[t].req.op = "recognize" =>
           /\ th[t].resp.status = 404
           /\ th[t].resp.error = "No matches found"
           /\ th[t].resp.best_match = NoBest
           /\ th[t].resp.matches = <<>>

\* C18 witness: recognize answered on the empty catalog
C18_Witness ==
  /\ Idle(1)
  /\ card_hashes.rows = <<>>
  /\ card_hashes.hasDistance
  /\ th[1].req.op = "recognize"
  /\ th[1].req.hash_type = "wavelet"
  /\ th[1].resp.error = "No matches found"

(***************************************************************************)
(* Properties of recognize_card's verdict (SpecVerdict).                   *)
(***************************************************************************)
ProbeRecognized(r) == r.op = "recognize" /\ r.status = 200

C5_Bounded ==
  ProbeRecognized(probe) =>
    /\ probe.distance >= 0
    /\ probe.confidence >= 500
    /\ probe.confidence <= 1000

C5_Monotone ==
  ProbeRecognized(probe) /\ ProbeRecognized(probe') =>
    /\ probe.distance <= probe'.distance => probe.confidence >= probe'.confidence
    /\ probe'.distance <= probe.distance => probe'.confidence >= probe.confidence

\* C5: the confidence of a recognized card is between 50.0 and 100.0, and of
\* two recognized cards the one at the smaller distance has the confidence
\* that is at least as large.
C5_ConfidenceBoundedMonotone == []C5_Bounded /\ [][C5_Monotone]_vars

\* C5 witness: a card recognized beyond distance 150, where the clamp acts
C5_Witness ==
  /\ ProbeRecognized(probe)
  /\ probe.distance > 150
  /\ probe.confidence = 500

(***************************************************************************)
(* Properties of concurrent add_card requests (SpecConcurrent).            *)
(***************************************************************************)
\* C9: no two add_card requests for the same id both succeed, and the
\* catalog never holds two records of one id.
C9_SerializedAppend ==
  /\ UniqueById(card_hashes.rows)
  /\ ~ ( /\ AddSucceeded(1)
         /\ AddSucceeded(2)
         /\ th[1].resp.cardId = th[2].resp.cardId )

\* C10: when two add_card requests for different ids have both succeeded,
\* both records are in the in-memory catalog and in the durable snapshot.
C10_NoLostAppend ==
  ( /\ AddSucceeded(1)
    /\ AddSucceeded(2)
    /\ th[1].resp.cardId # th[2].resp.cardId ) =>
    /\ {th[1].resp.cardId, th[2].resp.cardId} \subseteq MemoryIds
    /\ {th[1].resp.cardId, th[2].resp.cardId} \subseteq DurableIds

(***************************************************************************)
(* Properties of concurrent match and recognize requests (SpecMatching).   *)
(***************************************************************************)
\* what the request of thread t can be answered when it runs alone on the
\* catalog
AnswersAlone(t) ==
  LET req == th[t].req
      alone == get_most_similar(card_hashes, req.image, req.hash_type,
                                IF req.op = "recognize" THEN TopN ELSE req.n).results
  IN IF req.op = "match"
     THEN {[Response("match", 200, "") EXCEPT !.matches = m] : m \in alone}
     ELSE {RecognizeResult(m, req.threshold) : m \in alone}

\* C11: every answered match or recognize request (with an image and a
\* fingerprint type the service knows) got an answer it can get when it runs
\* alone on the catalog: the same ids and distances.
C11_NoInterference ==
  \A t \in Threads :
    ( /\ Idle(t)
      /\ th[t].req.op \in {"match", "recognize"}
      /\ th[t].req.image \in Images
      /\ th[t].req.hash_type \in HashTypes ) =>
      th[t].resp \in AnswersAlone(t)

(***************************************************************************)
(* Frame of the matching path (Spec).                                      *)
(***************************************************************************)
\* the columns of a frame
Columns(df) ==
  {"id", "perceptual", "difference", "wavelet", "color"}
    \cup (IF df.hasDistance THEN {"distance"} ELSE {})

RecordShape == {"id", "perceptual", "difference", "wavelet", "color"}

\* C12: match and recognize leave the catalog as it is: the in-memory
\* catalog and every snapshot add_card persists keep the columns id,
\* perceptual, difference, wavelet and color, and no other.
C12_MatchingReadOnly ==
  /\ Columns(card_hashes) = RecordShape
  /\ Columns(pickle.df) = RecordShape

(***************************************************************************)
(* Shape of the fingerprints (SpecScript).                                 *)
(***************************************************************************)
\* C19: for every image, the fingerprints compute_hash.py prints have, type
\* by type, the length of those get_hashes and compute_hashes_for_image
\* compute, which is the length of the fingerprints in the catalog.
C19_SameShape ==
  \A k \in DOMAIN printed :
    \A hash_type \in HashTypes :
      LET len == printed[k].hashes[hash_type].str.len IN
      /\ len = get_hashes(printed[k].image)[hash_type].len
      /\ len = compute_hashes(printed[k].image)[hash_type].len
      /\ \A i \in DOMAIN card_hashes.rows : len = card_hashes.rows[i][hash_type].len

(***************************************************************************)
(* Properties of the durable catalog with both writers (SpecWriters).      *)
(***************************************************************************)
\* C21: no write of card_hashes_32b.pickle, by add_card or by the builder,
\* drops the id of a record the file held before the write.
C21_DurableOnlyGrows ==
  [][IdsOf(pickle.df.rows) \subseteq IdsOf(pickle'.df.rows)]_vars

(***************************************************************************)
(* In-memory and durable catalog of the service (Spec).                    *)
(***************************************************************************)
\* C22: whenever no add_card request is being handled, the in-memory catalog
\* and the pickle hold the same ids.
C22_MemoryMatchesDurable ==
  (\A t \in Threads : Idle(t)) => MemoryIds = DurableIds

====
